---- MODULE Spec2Model ----
(***************************************************************************)
(* Kestrel kernel enforcement layer (kestrel-ebpf/src/bpf/lsm.bpf.c):      *)
(* the decision store (four hash maps), the eight LSM hooks that consult   *)
(* it, and the enforcement-event ring buffer.                              *)
(*                                                                         *)
(* 64-bit machine words are kept at full width as four 16-bit limbs,       *)
(* most significant first, so that shifts, XOR, the wrapping subtraction   *)
(* of the expiry test and the wrapping multiply of the address hash are    *)
(* the ones the C code performs.                                           *)
(***************************************************************************)
EXTENDS Integers, Sequences, FiniteSets, TLC

\* ------------------------------------------------------------------ bounds
MaxCalls == 1     \* hook invocations per behaviour of Spec
MaxOps == 2       \* operations of the userspace engine / reader per behaviour
MaxClock == 2     \* largest value the monotonic clock reaches
MaxRingCalls == 3 \* hook invocations per behaviour of SpecRing
MaxRaceOps == 3   \* engine operations that run beside one rule lookup

\* ------------------------------------------------------- program constants
ACTION_ALLOW == 0
ACTION_BLOCK == 1
ACTION_KILL == 2

HOOK_BPRM_CHECK_SECURITY == 1
HOOK_FILE_OPEN == 2
HOOK_INODE_PERMISSION == 3
HOOK_SOCKET_CONNECT == 4
HOOK_MMAP_FILE == 5
HOOK_INODE_UNLINK == 7
HOOK_BPF == 10
HOOK_PERF_EVENT_OPEN == 11

EPERM == 1
EACCES == 13
ECONNREFUSED == 111

AF_INET == 2
AF_INET6 == 10
PROT_EXEC == 4

RINGBUF_MAX_ENTRIES == 4096   \* bytes of the enforcement_events ring

\* main.bpf.c: the exec tracepoint handler
MAX_ARGS_LEN == 512
MAX_ARGS == 32                \* ceiling of the argument loop
RB_MAX_ENTRIES == 4096        \* bytes of the rb ring
SIZEOF_EXECVE_EVENT == 8 + 4 + 4 + 4 + 4 + 4 + 16 + 256 + 512
EFAULT == 14
SIZEOF_ENFORCEMENT_EVENT == 8 + 4 + 4 + 4 + 4 + 8 + 128
BPF_RINGBUF_HDR_SZ == 8
SIZEOF_SA_FAMILY == 2
SIZEOF_SOCKADDR_IN == 2 + 2 + 4
SIZEOF_SOCKADDR_IN6 == 2 + 2 + 4 + 16 + 4
OFFSET_SIN_ADDR == 2 + 2          \* offsetof(sockaddr_in, sin_addr)
OFFSET_SIN6_ADDR == 2 + 2 + 4     \* offsetof(sockaddr_in6, sin6_addr)

\* --------------------------------------------------------- 64-bit words
Limb == 2^16

U64 == [1..4 -> 0..(Limb - 1)]

U64Zero == <<0, 0, 0, 0>>

\* A small natural (below 2^16) as a 64-bit word.
U64Of(n) == <<0, 0, 0, n>>

\* (u64)x for a u32 x given as a natural below 2^31.
U64OfU32(n) == <<0, 0, n \div Limb, n % Limb>>

\* (u64)x for a signed 32-bit int x: sign extension.
U64OfInt(c) ==
    IF c >= 0 THEN <<0, 0, c \div Limb, c % Limb>>
    ELSE <<Limb - 1, Limb - 1, (c \div Limb) % Limb, c % Limb>>

RECURSIVE BitXor(_, _, _)
BitXor(a, b, n) ==
    IF n = 0 THEN 0
    ELSE IF a = 0 THEN b
    ELSE IF b = 0 THEN a
    ELSE (((a % 2) + (b % 2)) % 2) + 2 * BitXor(a \div 2, b \div 2, n - 1)

U64Xor(x, y) ==
    <<BitXor(x[1], y[1], 16), BitXor(x[2], y[2], 16),
      BitXor(x[3], y[3], 16), BitXor(x[4], y[4], 16)>>

U64Shl32(x) == <<x[3], x[4], 0, 0>>
U64Shr32(x) == <<0, 0, x[1], x[2]>>
\* Variant with a seeded fault: the hash is not shifted before the port is mixed in.
U64Shl16_none(x) == x

U64Shl16(x) == <<x[2], x[3], x[4], 0>>

\* x - y modulo 2^64.
U64Sub(x, y) ==
    LET d4 == x[4] - y[4]
        b4 == IF d4 < 0 THEN 1 ELSE 0
        d3 == x[3] - y[3] - b4
        b3 == IF d3 < 0 THEN 1 ELSE 0
        d2 == x[2] - y[2] - b3
        b2 == IF d2 < 0 THEN 1 ELSE 0
        d1 == x[1] - y[1] - b2
    IN  <<d1 % Limb, d2 % Limb, d3 % Limb, d4 % Limb>>

\* x > y, unsigned.
U64Gt(x, y) ==
    \/ x[1] > y[1]
    \/ x[1] = y[1] /\ x[2] > y[2]
    \/ x[1] = y[1] /\ x[2] = y[2] /\ x[3] > y[3]
    \/ x[1] = y[1] /\ x[2] = y[2] /\ x[3] = y[3] /\ x[4] > y[4]

\* x * 31 + byte modulo 2^64.
U64Mul31Add(x, byte) ==
    LET t4 == x[4] * 31 + byte
        t3 == x[3] * 31 + (t4 \div Limb)
        t2 == x[2] * 31 + (t3 \div Limb)
        t1 == x[1] * 31 + (t2 \div Limb)
    IN  <<t1 % Limb, t2 % Limb, t3 % Limb, t4 % Limb>>

\* The upper 32 bits of a word, as limbs.
U64High32(x) == <<x[1], x[2]>>

\* ------------------------------------------------------------ input sets
Pids == {1, 2}

\* Values get_task_start_time can return (zero also when the read fails).
StartTimes == {<<0, 1, 0, 0>>}

\* The eight bytes that follow &entity_key on the stack.
StackTails == {U64Zero, U64Of(1)}

NoDetails == "<null>"
Filenames == {"/bin/sh"}

\* Socket addresses handed to socket-connect: the buffer is addr_len bytes
\* long and starts with the fields below (family, raw sin_port, address).
SaNull == [null |-> TRUE, family |-> 0, port |-> 0, bytes |-> <<>>]
SaUnix == [null |-> FALSE, family |-> 1, port |-> 0, bytes |-> <<>>]
SaV4 == [null |-> FALSE, family |-> AF_INET, port |-> 47873,
         bytes |-> <<192, 168, 1, 1>>]
SaV6 == [null |-> FALSE, family |-> AF_INET6, port |-> 47873,
         bytes |-> <<0, 0, 0, 0, 0, 0, 0, 0, 0, 0, 0, 0, 0, 0, 0, 1>>]

\* <<address, addr_len>> pairs.
SockInputs == {<<SaNull, 16>>, <<SaUnix, 16>>, <<SaV4, 7>>, <<SaV4, 8>>,
               <<SaV6, 24>>, <<SaV6, 28>>}

ReqProts == {1, 5}
BpfCmds == {5, -1}
PerfTargets == {0, -1}

Clocks == 0..MaxClock

\* Keys and values the userspace engine writes into the maps.
IntOfU64(a) ==
    IF a[3] >= Limb \div 2 THEN (a[3] - Limb) * Limb + a[4]
    ELSE a[3] * Limb + a[4]

\* Variant with a seeded fault: the low half of start_time is mixed in.
generate_entity_key_low(pid, start_time, extra) ==
    U64Xor(U64Xor(U64Shl32(U64OfU32(pid)),
                  <<0, 0, start_time[3], start_time[4]>>), extra)

generate_entity_key(pid, start_time, extra) ==
    U64Xor(U64Xor(U64Shl32(U64OfU32(pid)), U64Shr32(start_time)), extra)

\* for (i = i0; i < n && i < lim; i++) h = h * 31 + bytes[i]
RECURSIVE HashLoop(_, _, _, _, _)
HashLoop(h, bytes, i, n, lim) ==
    IF i < n /\ i < lim
    THEN HashLoop(U64Mul31Add(h, bytes[i + 1]), bytes, i + 1, n, lim)
    ELSE h

\* The number of iterations of that loop.
LoopCount(n, lim) == IF lim <= 0 THEN 0 ELSE IF lim < n THEN lim ELSE n

ZeroBytes(n) == [i \in 1..n |-> 0]

\* The address part of lsm_socket_connect: what it reads from the caller's
\* buffer and the hash it derives.  fault: the structure read failed and
\* left the local structure zeroed.
socket_fingerprint(sa, addr_len, fault) ==
    LET famRead == (~sa.null) /\ addr_len >= SIZEOF_SA_FAMILY
        family == IF famRead THEN sa.family ELSE 0
        port == IF fault THEN 0 ELSE sa.port
    IN  IF family = AF_INET /\ addr_len >= 8
        THEN LET b == IF fault THEN ZeroBytes(4) ELSE sa.bytes
                 h == HashLoop(U64Zero, b, 0, 4, addr_len - 4)
             IN  [hash |-> U64Xor(U64Shl16(h), U64Of(port)),
                  family |-> family,
                  nread |-> SIZEOF_SOCKADDR_IN,
                  used_end |-> OFFSET_SIN_ADDR + LoopCount(4, addr_len - 4)]
        ELSE IF family = AF_INET6 /\ addr_len >= 24
        THEN LET b == IF fault THEN ZeroBytes(16) ELSE sa.bytes
                 h == HashLoop(U64Zero, b, 0, 16, addr_len - 8)
             IN  [hash |-> U64Xor(U64Shl16(h), U64Of(port)),
                  family |-> family,
                  nread |-> SIZEOF_SOCKADDR_IN6,
                  used_end |-> OFFSET_SIN6_ADDR + LoopCount(16, addr_len - 8)]
        ELSE [hash |-> U64Zero,
              family |-> family,
              nread |-> IF famRead THEN SIZEOF_SA_FAMILY ELSE 0,
              used_end |-> 0]

\* A structure read can fail only where it runs past the caller's buffer.
ReadFaults(sa, addr_len) ==
    LET fp == socket_fingerprint(sa, addr_len, FALSE)
    IN  IF fp.nread > addr_len THEN BOOLEAN ELSE {FALSE}

FpA == socket_fingerprint(SaV4, 8, FALSE).hash

ProcKey == generate_entity_key(1, <<0, 1, 0, 0>>, U64Zero)

\* What the engine may write.
RuleHeads == {ProcKey}
RuleActions == {U64Of(ACTION_ALLOW), U64Of(ACTION_BLOCK), U64Of(ACTION_KILL)}
\* <<ttl_ns, timestamp_ns>> pairs.
RuleTimes == {<<U64Zero, U64Of(2)>>, <<U64Of(1), U64Zero>>}
BlockingKeys == RuleHeads \X StackTails
FlagValues == {U64Of(1), U64Zero}
FlaggedPids == {1}
PathHashes == {U64Of(7)}
NetHashes == {U64Zero, FpA}

\* ------------------------------------------------------------------ state
VARIABLES
    blocking_rules,        \* blocking_key -> blocking_rule
    pid_blocking_map,      \* u32 pid -> u64
    path_blocking_map,     \* u64 hash -> u64
    network_blocking_map,  \* u64 hash -> u64
    enforcement_map,       \* main.bpf.c: u32 pid -> enforcement_decision
    enforcement_events,    \* the ring: [backlog, events], see RingLen
    clock,                 \* bpf_ktime_get_ns
    calls,                 \* hook invocations so far
    ops,                   \* engine and reader operations so far
    attempts,              \* records hooks asked the ring to take, in order
    last,                  \* the hook invocation that has just returned and
                           \* the state it ran in; NoCall after other steps
    thread                 \* a handler observed statement by statement: its
                           \* position and locals; Idle where handlers are
                           \* taken as single steps

vars == <<blocking_rules, pid_blocking_map, path_blocking_map,
          network_blocking_map, enforcement_map, enforcement_events, clock,
          calls, ops, attempts, last, thread>>

EmptyMap == [x \in {} |-> 0]
MapDelete(m, k) == [x \in DOMAIN m \ {k} |-> m[x]]
MapUpdate(m, k, v) == [x \in DOMAIN m \cup {k} |-> IF x = k THEN v ELSE m[x]]

\* --------------------------------------------------------- decision store
\* ttl_ns > 0 and (now - timestamp_ns) > ttl_ns, in unsigned 64-bit arithmetic.
RuleExpired(rule, now) ==
    /\ U64Gt(rule.ttl_ns, U64Zero)
    /\ U64Gt(U64Sub(now, rule.timestamp_ns), rule.ttl_ns)

\* The map's key is a 16-byte blocking_key; the caller passes the address of
\* an 8-byte entity_key, so each map call takes its second eight bytes from
\* whatever follows on the stack: tailL at the lookup, tailD at the delete.
rule_lookup(rules, entity_key, tailL, tailD, now) ==
    LET key == <<entity_key, tailL>>
    IN  IF key \notin DOMAIN rules
        THEN [action |-> ACTION_ALLOW, rules |-> rules]
        ELSE IF RuleExpired(rules[key], now)
        THEN [action |-> ACTION_ALLOW,
              rules |-> MapDelete(rules, <<entity_key, tailD>>)]
        ELSE [action |-> IntOfU64(rules[key].action), rules |-> rules]

\* The outcomes check_blocking_rules(entity_key) can have: the action it
\* returns and the rule table it leaves, over the stack contents.
check_blocking_rules(rules, entity_key, now) ==
    {rule_lookup(rules, entity_key, tailL, tailD, now) :
        tailL \in StackTails, tailD \in StackTails}

\* Variant with a seeded fault: the flag value is compared with 0 instead of 1.
check_pid_blocked_inverted(pids, pid) ==
    IF pid \in DOMAIN pids /\ pids[pid] = U64Zero
    THEN ACTION_BLOCK ELSE ACTION_ALLOW

check_pid_blocked(pids, pid) ==
    IF pid \in DOMAIN pids /\ pids[pid] = U64Of(1)
    THEN ACTION_BLOCK ELSE ACTION_ALLOW

check_path_blocked(paths, path_hash) ==
    IF path_hash \in DOMAIN paths /\ paths[path_hash] = U64Of(1)
    THEN ACTION_BLOCK ELSE ACTION_ALLOW

check_network_blocked(nets, addr_hash) ==
    IF addr_hash \in DOMAIN nets /\ nets[addr_hash] = U64Of(1)
    THEN ACTION_BLOCK ELSE ACTION_ALLOW

\* ------------------------------------------------------------ audit ring
\* A record occupies its size plus the ring's header, rounded up to 8.
RecordLen == ((SIZEOF_ENFORCEMENT_EVENT + BPF_RINGBUF_HDR_SZ + 7) \div 8) * 8

\* How many records fit between the consumer and the producer position.
RingSlots == (RINGBUF_MAX_ENTRIES - 1) \div RecordLen

\* Records left unread by earlier file-open invocations of pid 1.
BacklogRecord ==
    [ts_mono_ns |-> U64Zero, pid |-> 1, hook_type |-> HOOK_FILE_OPEN,
     action |-> ACTION_ALLOW, result |-> 0, entity_key |-> ProcKey,
     details |-> NoDetails]

\* The ring holds ring.backlog records that earlier invocations left unread
\* (each a BacklogRecord), then the records of ring.events, oldest first.
RingLen(ring) == ring.backlog + Len(ring.events)

\* Variant with a seeded fault: the length of the record being reserved is left out of the test.
bpf_ringbuf_reserve_short(ring) ==
    RingLen(ring) * RecordLen <= RINGBUF_MAX_ENTRIES - 1

\* bpf_ringbuf_reserve succeeds while the new producer position stays within
\* the ring's mask of the consumer position.
bpf_ringbuf_reserve(ring) ==
    RingLen(ring) * RecordLen + RecordLen <= RINGBUF_MAX_ENTRIES - 1

\* Variant with a seeded fault: the record is written without testing the reservation.
send_enforcement_event_unchecked(ring, now, pid, hook_type, action, result, entity_key, details) ==
    LET event == [ts_mono_ns |-> now, pid |-> pid, hook_type |-> hook_type,
                  action |-> action, result |-> result,
                  entity_key |-> entity_key, details |-> details]
    IN  [ring |-> [ring EXCEPT !.events = Append(@, event)], tried |-> event]

\* The ring send_enforcement_event leaves, and the record it was asked to
\* write (tried), which reaches the ring only if a slot was reserved.
send_enforcement_event(ring, now, pid, hook_type, action, result, entity_key, details) ==
    LET event == [ts_mono_ns |-> now, pid |-> pid, hook_type |-> hook_type,
                  action |-> action, result |-> result,
                  entity_key |-> entity_key, details |-> details]
    IN  IF ~bpf_ringbuf_reserve(ring)
        THEN [ring |-> ring, tried |-> event]
        ELSE [ring |-> [ring EXCEPT !.events = Append(@, event)],
              tried |-> event]

NoEvent == [hook_type |-> 0]

\* A return path that does not call send_enforcement_event.
NoSend(ring) == [ring |-> ring, tried |-> NoEvent]

\* ------------------------------------------------------------------ hooks
NoSock == [addr_len |-> 0, family |-> 0, hash |-> U64Zero, nread |-> 0,
           used_end |-> 0, fault |-> FALSE, dest |-> U64Zero, reqprot |-> 0]

\* What lsm_mmap_file was called with.
MmapArgs(reqprot) == [NoSock EXCEPT !.reqprot = reqprot]

NoCall == [hook |-> 0]

Idle == [pc |-> "idle"]

Snapshot == [rules |-> blocking_rules, pids |-> pid_blocking_map,
             paths |-> path_blocking_map, nets |-> network_blocking_map,
             ring |-> enforcement_events,
             ringlen |-> RingLen(enforcement_events), clock |-> clock]

\* The hook returns ret; rules2 is the rule table it leaves behind and sent
\* the outcome of its audit emission.  consulted: it looked the decision
\* store up; rule_action: what check_blocking_rules returned; action: the
\* action its lookups resolved.
Return(hook, pid, key, consulted, rule_action, action, ret, rules2, sent, sock) ==
    /\ blocking_rules' = rules2
    /\ enforcement_events' = sent.ring
    /\ attempts' = IF sent.tried = NoEvent THEN attempts
                   ELSE Append(attempts, sent.tried)
    /\ calls' = calls + 1
    /\ last' = [hook |-> hook, pid |-> pid, key |-> key,
                consulted |-> consulted, rule_action |-> rule_action,
                action |-> action, ret |-> ret,
                tried |-> sent.tried, sock |-> sock, pre |-> Snapshot]
    /\ UNCHANGED <<pid_blocking_map, path_blocking_map,
                   network_blocking_map, enforcement_map, clock, ops, thread>>

lsm_bprm_check_security(pid, st, filename) ==
    LET now == U64Of(clock)
        entity_key == generate_entity_key(pid, st, U64Zero)
    IN  \E r \in check_blocking_rules(blocking_rules, entity_key, now) :
           LET action == IF r.action = ACTION_ALLOW
                         THEN check_pid_blocked(pid_blocking_map, pid) ELSE r.action
           IN  IF action = ACTION_BLOCK
               THEN Return(HOOK_BPRM_CHECK_SECURITY, pid, entity_key, TRUE, r.action, action,
                          -EPERM, r.rules,
                          send_enforcement_event(enforcement_events, now, pid,
                              HOOK_BPRM_CHECK_SECURITY, ACTION_BLOCK, -EPERM,
                              entity_key, filename), NoSock)
               ELSE IF action = ACTION_KILL
               THEN Return(HOOK_BPRM_CHECK_SECURITY, pid, entity_key, TRUE, r.action, action,
                          -EPERM, r.rules,
                          send_enforcement_event(enforcement_events, now, pid,
                              HOOK_BPRM_CHECK_SECURITY, ACTION_KILL, -EPERM,
                              entity_key, filename), NoSock)
               ELSE Return(HOOK_BPRM_CHECK_SECURITY, pid, entity_key, TRUE, r.action, action,
                          0, r.rules,
                          send_enforcement_event(enforcement_events, now, pid,
                              HOOK_BPRM_CHECK_SECURITY, ACTION_ALLOW, 0,
                              entity_key, filename), NoSock)

\* Variant with a seeded fault: file-open also consults the path-block table.
lsm_file_open_pathcheck(pid, st) ==
    LET now == U64Of(clock)
        entity_key == generate_entity_key(pid, st, U64Zero)
    IN  \E r \in check_blocking_rules(blocking_rules, entity_key, now) :
           LET a1 == IF r.action = ACTION_ALLOW
                     THEN check_pid_blocked(pid_blocking_map, pid) ELSE r.action
               action == IF a1 = ACTION_ALLOW
                         THEN check_path_blocked(path_blocking_map, U64Of(7))
                         ELSE a1
           IN  IF action = ACTION_BLOCK
               THEN Return(HOOK_FILE_OPEN, pid, entity_key, TRUE, r.action, action,
                          -EPERM, r.rules,
                          send_enforcement_event(enforcement_events, now, pid,
                              HOOK_FILE_OPEN, ACTION_BLOCK, -EPERM,
                              entity_key, NoDetails), NoSock)
               ELSE Return(HOOK_FILE_OPEN, pid, entity_key, TRUE, r.action, action,
                          0, r.rules,
                          send_enforcement_event(enforcement_events, now, pid,
                              HOOK_FILE_OPEN, ACTION_ALLOW, 0,
                              entity_key, NoDetails), NoSock)

lsm_file_open(pid, st) ==
    LET now == U64Of(clock)
        entity_key == generate_entity_key(pid, st, U64Zero)
    IN  \E r \in check_blocking_rules(blocking_rules, entity_key, now) :
           LET action == IF r.action = ACTION_ALLOW
                         THEN check_pid_blocked(pid_blocking_map, pid) ELSE r.action
           IN  IF action = ACTION_BLOCK
               THEN Return(HOOK_FILE_OPEN, pid, entity_key, TRUE, r.action, action,
                          -EPERM, r.rules,
                          send_enforcement_event(enforcement_events, now, pid,
                              HOOK_FILE_OPEN, ACTION_BLOCK, -EPERM,
                              entity_key, NoDetails), NoSock)
               ELSE Return(HOOK_FILE_OPEN, pid, entity_key, TRUE, r.action, action,
                          0, r.rules,
                          send_enforcement_event(enforcement_events, now, pid,
                              HOOK_FILE_OPEN, ACTION_ALLOW, 0,
                              entity_key, NoDetails), NoSock)

\* Variant with a seeded fault: inode-permission denies with the code of the other hooks.
lsm_inode_permission_eperm(pid, st) ==
    LET now == U64Of(clock)
        entity_key == generate_entity_key(pid, st, U64Zero)
    IN  \E r \in check_blocking_rules(blocking_rules, entity_key, now) :
           LET action == IF r.action = ACTION_ALLOW
                         THEN check_pid_blocked(pid_blocking_map, pid) ELSE r.action
           IN  IF action = ACTION_BLOCK
               THEN Return(HOOK_INODE_PERMISSION, pid, entity_key, TRUE, r.action, action,
                          -EPERM, r.rules,
                          send_enforcement_event(enforcement_events, now, pid,
                              HOOK_INODE_PERMISSION, ACTION_BLOCK, -EPERM,
                              entity_key, NoDetails), NoSock)
               ELSE Return(HOOK_INODE_PERMISSION, pid, entity_key, TRUE, r.action, action,
                          0, r.rules, NoSend(enforcement_events), NoSock)

lsm_inode_permission(pid, st) ==
    LET now == U64Of(clock)
        entity_key == generate_entity_key(pid, st, U64Zero)
    IN  \E r \in check_blocking_rules(blocking_rules, entity_key, now) :
           LET action == IF r.action = ACTION_ALLOW
                         THEN check_pid_blocked(pid_blocking_map, pid) ELSE r.action
           IN  IF action = ACTION_BLOCK
               THEN Return(HOOK_INODE_PERMISSION, pid, entity_key, TRUE, r.action, action,
                          -EACCES, r.rules,
                          send_enforcement_event(enforcement_events, now, pid,
                              HOOK_INODE_PERMISSION, ACTION_BLOCK, -EACCES,
                              entity_key, NoDetails), NoSock)
               ELSE Return(HOOK_INODE_PERMISSION, pid, entity_key, TRUE, r.action, action,
                          0, r.rules, NoSend(enforcement_events), NoSock)

\* Variant with a seeded fault: the key is not derived again with the address hash.
lsm_socket_connect_stalekey(pid, st, sa, addr_len, fault) ==
    LET now == U64Of(clock)
        fp == socket_fingerprint(sa, addr_len, fault)
        addr_hash == fp.hash
        entity_key == generate_entity_key(pid, st, U64Zero)
    IN  \E r \in check_blocking_rules(blocking_rules, entity_key, now) :
           LET a1 == IF r.action = ACTION_ALLOW
                     THEN check_pid_blocked(pid_blocking_map, pid) ELSE r.action
               action == IF a1 = ACTION_ALLOW
                         THEN check_network_blocked(network_blocking_map, addr_hash)
                         ELSE a1
               sock == [addr_len |-> addr_len, family |-> fp.family,
                        hash |-> addr_hash, nread |-> fp.nread,
                        used_end |-> fp.used_end, fault |-> fault,
                        dest |-> socket_fingerprint(sa, addr_len, FALSE).hash,
                        reqprot |-> 0]
           IN  IF action = ACTION_BLOCK
               THEN Return(HOOK_SOCKET_CONNECT, pid, entity_key, TRUE, r.action, action,
                          -ECONNREFUSED, r.rules,
                          send_enforcement_event(enforcement_events, now, pid,
                              HOOK_SOCKET_CONNECT, ACTION_BLOCK, -ECONNREFUSED,
                              entity_key, NoDetails), sock)
               ELSE Return(HOOK_SOCKET_CONNECT, pid, entity_key, TRUE, r.action, action,
                          0, r.rules,
                          send_enforcement_event(enforcement_events, now, pid,
                              HOOK_SOCKET_CONNECT, ACTION_ALLOW, 0,
                              entity_key, NoDetails), sock)

lsm_socket_connect(pid, st, sa, addr_len, fault) ==
    LET now == U64Of(clock)
        fp == socket_fingerprint(sa, addr_len, fault)
        addr_hash == fp.hash
        entity_key == generate_entity_key(pid, st, addr_hash)
    IN  \E r \in check_blocking_rules(blocking_rules, entity_key, now) :
           LET a1 == IF r.action = ACTION_ALLOW
                     THEN check_pid_blocked(pid_blocking_map, pid) ELSE r.action
               action == IF a1 = ACTION_ALLOW
                         THEN check_network_blocked(network_blocking_map, addr_hash)
                         ELSE a1
               sock == [addr_len |-> addr_len, family |-> fp.family,
                        hash |-> addr_hash, nread |-> fp.nread,
                        used_end |-> fp.used_end, fault |-> fault,
                        dest |-> socket_fingerprint(sa, addr_len, FALSE).hash,
                        reqprot |-> 0]
           IN  IF action = ACTION_BLOCK
               THEN Return(HOOK_SOCKET_CONNECT, pid, entity_key, TRUE, r.action, action,
                          -ECONNREFUSED, r.rules,
                          send_enforcement_event(enforcement_events, now, pid,
                              HOOK_SOCKET_CONNECT, ACTION_BLOCK, -ECONNREFUSED,
                              entity_key, NoDetails), sock)
               ELSE Return(HOOK_SOCKET_CONNECT, pid, entity_key, TRUE, r.action, action,
                          0, r.rules,
                          send_enforcement_event(enforcement_events, now, pid,
                              HOOK_SOCKET_CONNECT, ACTION_ALLOW, 0,
                              entity_key, NoDetails), sock)

\* Variant with a seeded fault: the read bit is tested in place of the execute bit.
lsm_mmap_file_readbit(pid, st, reqprot) ==
    LET now == U64Of(clock)
        entity_key == generate_entity_key(pid, st, U64Zero)
    IN  IF reqprot % 2 = 0
           THEN Return(HOOK_MMAP_FILE, pid, entity_key, FALSE, ACTION_ALLOW,
                       ACTION_ALLOW,
                       0, blocking_rules, NoSend(enforcement_events), MmapArgs(reqprot))
           ELSE \E r \in check_blocking_rules(blocking_rules, entity_key, now) :
              LET action == IF r.action = ACTION_ALLOW
                            THEN check_pid_blocked(pid_blocking_map, pid)
                            ELSE r.action
              IN  IF action = ACTION_BLOCK
                  THEN Return(HOOK_MMAP_FILE, pid, entity_key, TRUE, r.action, action,
                          -EPERM, r.rules,
                          send_enforcement_event(enforcement_events, now, pid,
                              HOOK_MMAP_FILE, ACTION_BLOCK, -EPERM,
                              entity_key, NoDetails), MmapArgs(reqprot))
                  ELSE Return(HOOK_MMAP_FILE, pid, entity_key, TRUE, r.action, action,
                          0, r.rules,
                          send_enforcement_event(enforcement_events, now, pid,
                              HOOK_MMAP_FILE, ACTION_ALLOW, 0,
                              entity_key, NoDetails), MmapArgs(reqprot))

lsm_mmap_file(pid, st, reqprot) ==
    LET now == U64Of(clock)
        entity_key == generate_entity_key(pid, st, U64Zero)
    IN  IF (reqprot \div PROT_EXEC) % 2 = 0
           THEN Return(HOOK_MMAP_FILE, pid, entity_key, FALSE, ACTION_ALLOW,
                       ACTION_ALLOW,
                       0, blocking_rules, NoSend(enforcement_events), MmapArgs(reqprot))
           ELSE \E r \in check_blocking_rules(blocking_rules, entity_key, now) :
              LET action == IF r.action = ACTION_ALLOW
                            THEN check_pid_blocked(pid_blocking_map, pid)
                            ELSE r.action
              IN  IF action = ACTION_BLOCK
                  THEN Return(HOOK_MMAP_FILE, pid, entity_key, TRUE, r.action, action,
                          -EPERM, r.rules,
                          send_enforcement_event(enforcement_events, now, pid,
                              HOOK_MMAP_FILE, ACTION_BLOCK, -EPERM,
                              entity_key, NoDetails), MmapArgs(reqprot))
                  ELSE Return(HOOK_MMAP_FILE, pid, entity_key, TRUE, r.action, action,
                          0, r.rules,
                          send_enforcement_event(enforcement_events, now, pid,
                              HOOK_MMAP_FILE, ACTION_ALLOW, 0,
                              entity_key, NoDetails), MmapArgs(reqprot))

lsm_inode_unlink(pid, st) ==
    LET now == U64Of(clock)
        entity_key == generate_entity_key(pid, st, U64Zero)
    IN  \E r \in check_blocking_rules(blocking_rules, entity_key, now) :
           LET action == IF r.action = ACTION_ALLOW
                         THEN check_pid_blocked(pid_blocking_map, pid) ELSE r.action
           IN  IF action = ACTION_BLOCK
               THEN Return(HOOK_INODE_UNLINK, pid, entity_key, TRUE, r.action, action,
                          -EPERM, r.rules,
                          send_enforcement_event(enforcement_events, now, pid,
                              HOOK_INODE_UNLINK, ACTION_BLOCK, -EPERM,
                              entity_key, NoDetails), NoSock)
               ELSE Return(HOOK_INODE_UNLINK, pid, entity_key, TRUE, r.action, action,
                          0, r.rules, NoSend(enforcement_events), NoSock)

lsm_bpf(pid, st, cmd) ==
    LET now == U64Of(clock)
        entity_key == generate_entity_key(pid, st, U64OfInt(cmd))
    IN  \E r \in check_blocking_rules(blocking_rules, entity_key, now) :
           LET action == IF r.action = ACTION_ALLOW
                         THEN check_pid_blocked(pid_blocking_map, pid) ELSE r.action
           IN  IF action = ACTION_BLOCK
               THEN Return(HOOK_BPF, pid, entity_key, TRUE, r.action, action,
                          -EPERM, r.rules,
                          send_enforcement_event(enforcement_events, now, pid,
                              HOOK_BPF, ACTION_BLOCK, -EPERM,
                              entity_key, NoDetails), NoSock)
               ELSE Return(HOOK_BPF, pid, entity_key, TRUE, r.action, action,
                          0, r.rules, NoSend(enforcement_events), NoSock)

lsm_perf_event_open(current_pid, st, pid) ==
    LET now == U64Of(clock)
        entity_key == generate_entity_key(current_pid, st, U64OfInt(pid))
    IN  \E r \in check_blocking_rules(blocking_rules, entity_key, now) :
           LET action == IF r.action = ACTION_ALLOW
                         THEN check_pid_blocked(pid_blocking_map, current_pid)
                         ELSE r.action
           IN  IF action = ACTION_BLOCK
               THEN Return(HOOK_PERF_EVENT_OPEN, current_pid, entity_key, TRUE,
                          r.action, action, -EPERM, r.rules,
                          send_enforcement_event(enforcement_events, now,
                              current_pid, HOOK_PERF_EVENT_OPEN, ACTION_BLOCK,
                              -EPERM, entity_key, NoDetails), NoSock)
               ELSE Return(HOOK_PERF_EVENT_OPEN, current_pid, entity_key, TRUE,
                          r.action, action, 0, r.rules, NoSend(enforcement_events), NoSock)

\* ------------------------------------------- userspace engine and reader
EngineStep ==
    /\ ops < MaxOps
    /\ ops' = ops + 1
    /\ last' = NoCall
    /\ UNCHANGED <<enforcement_map, clock, calls, attempts, thread>>

UpdateRule(key, action, ttl, stamp) ==
    /\ EngineStep
    /\ blocking_rules' = MapUpdate(blocking_rules, key,
           [entity_key |-> key[1], action |-> action, ttl_ns |-> ttl,
            timestamp_ns |-> stamp, rule_id |-> U64Zero])
    /\ UNCHANGED <<pid_blocking_map, path_blocking_map,
                   network_blocking_map, enforcement_events>>

DeleteRule(key) ==
    /\ EngineStep
    /\ key \in DOMAIN blocking_rules
    /\ blocking_rules' = MapDelete(blocking_rules, key)
    /\ UNCHANGED <<pid_blocking_map, path_blocking_map,
                   network_blocking_map, enforcement_events>>

UpdatePidBlock(pid, v) ==
    /\ EngineStep
    /\ pid_blocking_map' = MapUpdate(pid_blocking_map, pid, v)
    /\ UNCHANGED <<blocking_rules, path_blocking_map,
                   network_blocking_map, enforcement_events>>

DeletePidBlock(pid) ==
    /\ EngineStep
    /\ pid \in DOMAIN pid_blocking_map
    /\ pid_blocking_map' = MapDelete(pid_blocking_map, pid)
    /\ UNCHANGED <<blocking_rules, path_blocking_map,
                   network_blocking_map, enforcement_events>>

UpdatePathBlock(h, v) ==
    /\ EngineStep
    /\ path_blocking_map' = MapUpdate(path_blocking_map, h, v)
    /\ UNCHANGED <<blocking_rules, pid_blocking_map,
                   network_blocking_map, enforcement_events>>

UpdateNetworkBlock(h, v) ==
    /\ EngineStep
    /\ network_blocking_map' = MapUpdate(network_blocking_map, h, v)
    /\ UNCHANGED <<blocking_rules, pid_blocking_map,
                   path_blocking_map, enforcement_events>>

\* The telemetry reader consumes the oldest record.
ReaderDrain ==
    /\ EngineStep
    /\ RingLen(enforcement_events) > 0
    /\ enforcement_events' =
           IF enforcement_events.backlog > 0
           THEN [enforcement_events EXCEPT !.backlog = @ - 1]
           ELSE [enforcement_events EXCEPT !.events = Tail(@)]
    /\ UNCHANGED <<blocking_rules, pid_blocking_map, path_blocking_map,
                   network_blocking_map>>

Tick ==
    /\ clock < MaxClock
    /\ clock' = clock + 1
    /\ last' = NoCall
    /\ UNCHANGED <<blocking_rules, pid_blocking_map, path_blocking_map,
                   network_blocking_map, enforcement_map, enforcement_events,
                   calls, ops, attempts, thread>>

\* ------------------------------------------------------- specification
InitBacklogs == {RingSlots - 1, RingSlots}

Init ==
    /\ blocking_rules = EmptyMap
    /\ pid_blocking_map = EmptyMap
    /\ path_blocking_map = EmptyMap
    /\ network_blocking_map = EmptyMap
    /\ enforcement_map = EmptyMap
    /\ enforcement_events \in
           {[backlog |-> n, events |-> <<>>] : n \in InitBacklogs}
    /\ clock = 0
    /\ calls = 0
    /\ ops = 0
    /\ attempts = <<>>
    /\ last = NoCall
    /\ thread = Idle

\* One hook invocation by a process of P, while fewer than limit were made.
HookStep(P, limit) ==
    \E pid \in P, st \in StartTimes :
        \/ calls < limit /\ \E f \in Filenames :
             lsm_bprm_check_security(pid, st, f)
        \/ calls < limit /\ lsm_file_open(pid, st)
        \/ calls < limit /\ lsm_inode_permission(pid, st)
        \/ calls < limit /\ \E in \in SockInputs :
             \E fault \in ReadFaults(in[1], in[2]) :
                lsm_socket_connect(pid, st, in[1], in[2], fault)
        \/ calls < limit /\ \E prot \in ReqProts : lsm_mmap_file(pid, st, prot)
        \/ calls < limit /\ lsm_inode_unlink(pid, st)
        \/ calls < limit /\ \E cmd \in BpfCmds : lsm_bpf(pid, st, cmd)
        \/ calls < limit /\ \E target \in PerfTargets :
             lsm_perf_event_open(pid, st, target)

Next ==
    \/ HookStep(Pids, MaxCalls)
    \/ \E key \in BlockingKeys, a \in RuleActions, t \in RuleTimes :
          UpdateRule(key, a, t[1], t[2])
    \/ \E key \in BlockingKeys : DeleteRule(key)
    \/ \E pid \in FlaggedPids, v \in FlagValues : UpdatePidBlock(pid, v)
    \/ \E pid \in FlaggedPids : DeletePidBlock(pid)
    \/ \E h \in PathHashes : UpdatePathBlock(h, U64Of(1))
    \/ \E h \in NetHashes : UpdateNetworkBlock(h, U64Of(1))
    \/ ReaderDrain
    \/ Tick

Spec == Init /\ [][Next]_vars

\* The audit channel under saturation: process 1 invokes hooks back to back,
\* nothing is drained, and the ring starts with room for one or two records.
RingBacklogs == {RingSlots - 2, RingSlots - 1}

InitRing ==
    /\ blocking_rules = EmptyMap
    /\ pid_blocking_map \in {EmptyMap, MapUpdate(EmptyMap, 1, U64Of(1))}
    /\ path_blocking_map = EmptyMap
    /\ network_blocking_map = EmptyMap
    /\ enforcement_map = EmptyMap
    /\ enforcement_events \in
           {[backlog |-> n, events |-> <<>>] : n \in RingBacklogs}
    /\ clock = 0
    /\ calls = 0
    /\ ops = 0
    /\ attempts = <<>>
    /\ last = NoCall
    /\ thread = Idle

NextRing == HookStep(FlaggedPids, MaxRingCalls)

SpecRing == InitRing /\ [][NextRing]_vars

\* check_blocking_rules statement by statement, beside the userspace engine.
\* The pointer bpf_map_lookup_elem returns refers to an element of the
\* preallocated hash map: thread.elem is what that element holds now and
\* thread.where its standing: "live" while it is the entry of thread.lkey,
\* "spare" once a replacement of that entry has set it aside, "free" once
\* the entry has been deleted.  The map fills a spare element on a later
\* replacement and a free one on a later insertion.
NoRule == [ttl_ns |-> U64Zero, timestamp_ns |-> U64Zero, entity_key |-> U64Zero,
           action |-> U64Zero, rule_id |-> U64Of(1)]

RaceEntry ==
    [pc |-> "lookup", key |-> ProcKey, lkey |-> <<U64Zero, U64Zero>>,
     elem |-> NoRule, where |-> "none", ttl |-> U64Zero, ts |-> U64Zero,
     now |-> 0, checked |-> FALSE, used |-> NoRule, ret |-> ACTION_ALLOW,
     deleted |-> NoRule, del_now |-> 0, written |-> {}]

InitRace ==
    /\ blocking_rules = EmptyMap
    /\ pid_blocking_map = EmptyMap
    /\ path_blocking_map = EmptyMap
    /\ network_blocking_map = EmptyMap
    /\ enforcement_map = EmptyMap
    /\ enforcement_events = [backlog |-> 0, events |-> <<>>]
    /\ clock = 0
    /\ calls = 0
    /\ ops = 0
    /\ attempts = <<>>
    /\ last = NoCall
    /\ thread = RaceEntry

RaceFrame ==
    UNCHANGED <<pid_blocking_map, path_blocking_map, network_blocking_map,
                enforcement_map, enforcement_events, calls, attempts, last>>

\* rule = bpf_map_lookup_elem(&blocking_rules, &entity_key); if (!rule) return
RaceLookup ==
    /\ thread.pc = "lookup"
    /\ \E tailL \in StackTails :
          LET key == <<thread.key, tailL>>
          IN  thread' = IF key \in DOMAIN blocking_rules
                        THEN [thread EXCEPT !.pc = "ttl", !.lkey = key,
                                            !.elem = blocking_rules[key],
                                            !.where = "live"]
                        ELSE [thread EXCEPT !.pc = "done",
                                            !.ret = ACTION_ALLOW]
    /\ UNCHANGED <<blocking_rules, clock, ops>>
    /\ RaceFrame

\* if (rule->ttl_ns > 0)
RaceReadTtl ==
    /\ thread.pc = "ttl"
    /\ thread' = [thread EXCEPT
                      !.ttl = thread.elem.ttl_ns,
                      !.pc = IF U64Gt(thread.elem.ttl_ns, U64Zero)
                             THEN "expiry" ELSE "action"]
    /\ UNCHANGED <<blocking_rules, clock, ops>>
    /\ RaceFrame

\* now = get_mono_time(); if ((now - rule->timestamp_ns) > rule->ttl_ns)
RaceReadExpiry ==
    /\ thread.pc = "expiry"
    /\ LET gone == U64Gt(U64Sub(U64Of(clock), thread.elem.timestamp_ns),
                         thread.elem.ttl_ns)
       IN  thread' = [thread EXCEPT
                         !.now = clock, !.checked = TRUE,
                         !.ts = thread.elem.timestamp_ns,
                         !.ttl = thread.elem.ttl_ns,
                         !.pc = IF gone THEN "delete" ELSE "action"]
    /\ UNCHANGED <<blocking_rules, clock, ops>>
    /\ RaceFrame

\* bpf_map_delete_elem(&blocking_rules, &entity_key); return ACTION_ALLOW
RaceDelete ==
    /\ thread.pc = "delete"
    /\ \E tailD \in StackTails :
          LET key == <<thread.key, tailD>>
          IN  /\ blocking_rules' = MapDelete(blocking_rules, key)
              /\ thread' = [thread EXCEPT
                    !.pc = "done", !.ret = ACTION_ALLOW, !.del_now = clock,
                    !.deleted = IF key \in DOMAIN blocking_rules
                                THEN blocking_rules[key] ELSE NoRule,
                    !.where = IF thread.where = "live" /\ key = thread.lkey
                              THEN "free" ELSE thread.where]
    /\ UNCHANGED <<clock, ops>>
    /\ RaceFrame

\* return (int)rule->action
RaceReadAction ==
    /\ thread.pc = "action"
    /\ thread' = [thread EXCEPT !.pc = "done", !.used = thread.elem,
                                !.ret = IntOfU64(thread.elem.action)]
    /\ UNCHANGED <<blocking_rules, clock, ops>>
    /\ RaceFrame

RaceRunning == thread.pc # "done"

\* The engine's insert-or-replace while the lookup is under way.
RaceUpdateRule(key, action, ttl, stamp) ==
    LET rule == [entity_key |-> key[1], action |-> action, ttl_ns |-> ttl,
                 timestamp_ns |-> stamp, rule_id |-> U64Zero]
        replaces == key \in DOMAIN blocking_rules
    IN  /\ RaceRunning
        /\ ops < MaxRaceOps
        /\ ops' = ops + 1
        /\ blocking_rules' = MapUpdate(blocking_rules, key, rule)
        /\ \/ /\ thread.where = "live" /\ key = thread.lkey
              /\ thread' = [thread EXCEPT !.where = "spare",
                                          !.written = @ \cup {rule}]
           \/ /\ ~(thread.where = "live" /\ key = thread.lkey)
              /\ thread' = [thread EXCEPT !.written = @ \cup {rule}]
           \/ /\ \/ thread.where = "spare" /\ replaces
                 \/ thread.where = "free" /\ ~replaces
              /\ thread' = [thread EXCEPT !.elem = rule, !.where = "live",
                                          !.lkey = key,
                                          !.written = @ \cup {rule}]
        /\ UNCHANGED clock
        /\ RaceFrame

\* The engine's delete while the lookup is under way.
RaceDeleteRule(key) ==
    /\ RaceRunning
    /\ ops < MaxRaceOps
    /\ key \in DOMAIN blocking_rules
    /\ ops' = ops + 1
    /\ blocking_rules' = MapDelete(blocking_rules, key)
    /\ thread' = IF thread.where = "live" /\ key = thread.lkey
                  THEN [thread EXCEPT !.where = "free"] ELSE thread
    /\ UNCHANGED clock
    /\ RaceFrame

RaceTick ==
    /\ RaceRunning
    /\ clock < MaxClock
    /\ clock' = clock + 1
    /\ UNCHANGED <<blocking_rules, ops, thread>>
    /\ RaceFrame

NextRace ==
    \/ RaceLookup
    \/ RaceReadTtl
    \/ RaceReadExpiry
    \/ RaceDelete
    \/ RaceReadAction
    \/ \E key \in BlockingKeys, a \in RuleActions, t \in RuleTimes :
          RaceUpdateRule(key, a, t[1], t[2])
    \/ \E key \in BlockingKeys : RaceDeleteRule(key)
    \/ RaceTick

SpecRace == InitRace /\ [][NextRace]_vars

\* lsm_socket_connect's address loops and handle_execve (main.bpf.c), loop
\* iteration by loop iteration.  thread.prog is the handler that runs,
\* thread.pc its position, thread.steps the steps it has taken.
StepAddrLens == {-1, 0, 7, 8, 9, 16, 23, 24, 25, 28, 2147483647}
StepAddrs == {SaNull, SaUnix, SaV4, SaV6}

\* Lengths (without the NUL) of the argument strings a process may pass.
StrLens == {0, 15, 200, 600}

ExecveRecordLen == ((SIZEOF_EXECVE_EVENT + BPF_RINGBUF_HDR_SZ + 7) \div 8) * 8
RbSlots == (RB_MAX_ENTRIES - 1) \div ExecveRecordLen

StepsEntry(prog) ==
    [prog |-> prog, pc |-> "entry", sa |-> SaNull, addr_len |-> 0,
     family |-> 0, i |-> 0, hash |-> U64Zero, iters |-> 0, rb |-> 0,
     reserved |-> FALSE, args_len |-> 0, w_start |-> 0, w_limit |-> 0,
     w_len |-> 0, broke |-> FALSE, submitted |-> 0, steps |-> 0]

InitSteps ==
    /\ blocking_rules = EmptyMap
    /\ pid_blocking_map = EmptyMap
    /\ path_blocking_map = EmptyMap
    /\ network_blocking_map = EmptyMap
    /\ enforcement_map = EmptyMap
    /\ enforcement_events = [backlog |-> 0, events |-> <<>>]
    /\ clock = 0
    /\ calls = 0
    /\ ops = 0
    /\ attempts = <<>>
    /\ last = NoCall
    /\ \/ \E sa \in StepAddrs, len \in StepAddrLens :
             thread = [StepsEntry("lsm_socket_connect") EXCEPT
                          !.sa = sa, !.addr_len = len]
       \/ \E n \in 0..RbSlots :
             thread = [StepsEntry("handle_execve") EXCEPT !.rb = n]

StepsFrame ==
    UNCHANGED <<blocking_rules, pid_blocking_map, path_blocking_map,
                network_blocking_map, enforcement_map, enforcement_events,
                clock, calls, ops, attempts, last>>

\* if (addr && addr_len >= 2) read family; then the branch on the family
ConnectReadFamily ==
    /\ thread.prog = "lsm_socket_connect" /\ thread.pc = "entry"
    /\ LET family == IF ~thread.sa.null /\ thread.addr_len >= SIZEOF_SA_FAMILY
                     THEN thread.sa.family ELSE 0
       IN  thread' = [thread EXCEPT
                         !.family = family, !.steps = @ + 1,
                         !.pc = IF family = AF_INET /\ thread.addr_len >= 8
                                THEN "loop4"
                                ELSE IF family = AF_INET6 /\ thread.addr_len >= 24
                                THEN "loop6" ELSE "lookups"]
    /\ StepsFrame

\* for (i = 0; i < 4 && i < addr_len - 4; i++), then the port is mixed in
ConnectLoop4 ==
    /\ thread.prog = "lsm_socket_connect" /\ thread.pc = "loop4"
    /\ thread' =
          IF thread.i < 4 /\ thread.i < thread.addr_len - 4
          THEN [thread EXCEPT
                   !.hash = U64Mul31Add(@, thread.sa.bytes[thread.i + 1]),
                   !.i = @ + 1, !.iters = @ + 1, !.steps = @ + 1]
          ELSE [thread EXCEPT
                   !.hash = U64Xor(U64Shl16(@), U64Of(thread.sa.port)),
                   !.pc = "lookups", !.steps = @ + 1]
    /\ StepsFrame

\* for (i = 0; i < 16 && i < addr_len - 8; i++), then the port is mixed in
ConnectLoop6 ==
    /\ thread.prog = "lsm_socket_connect" /\ thread.pc = "loop6"
    /\ thread' =
          IF thread.i < 16 /\ thread.i < thread.addr_len - 8
          THEN [thread EXCEPT
                   !.hash = U64Mul31Add(@, thread.sa.bytes[thread.i + 1]),
                   !.i = @ + 1, !.iters = @ + 1, !.steps = @ + 1]
          ELSE [thread EXCEPT
                   !.hash = U64Xor(U64Shl16(@), U64Of(thread.sa.port)),
                   !.pc = "lookups", !.steps = @ + 1]
    /\ StepsFrame

\* The key, the three lookups and the emission: straight-line code.
ConnectLookups ==
    /\ thread.prog = "lsm_socket_connect" /\ thread.pc = "lookups"
    /\ thread' = [thread EXCEPT !.pc = "return", !.steps = @ + 1]
    /\ StepsFrame

\* e = bpf_ringbuf_reserve(&rb, sizeof(*e), 0); if (!e) return 0
ExecveReserve ==
    /\ thread.prog = "handle_execve" /\ thread.pc = "entry"
    /\ thread' =
          IF thread.rb * ExecveRecordLen + ExecveRecordLen <= RB_MAX_ENTRIES - 1
          THEN [thread EXCEPT !.reserved = TRUE, !.pc = "fill", !.steps = @ + 1]
          ELSE [thread EXCEPT !.pc = "return", !.steps = @ + 1]
    /\ StepsFrame

\* The fixed fields of the record, then args_len = 0 and i = 0.
ExecveFill ==
    /\ thread.prog = "handle_execve" /\ thread.pc = "fill"
    /\ thread' = [thread EXCEPT !.args_len = 0, !.i = 0, !.pc = "loop",
                                !.steps = @ + 1]
    /\ StepsFrame

\* Variant with a seeded fault: the loop admits one more argument.
arg_loop_runs_wide(i) == i < MAX_ARGS + 1

\* for (i = 0; i < 32; i++)
arg_loop_runs(i) == i < MAX_ARGS

\* Variant with a seeded fault: the size limit ignores what is already written.
read_str_size_whole(args_len) == MAX_ARGS_LEN

\* MAX_ARGS_LEN - args_len, the size limit of the string read
read_str_size(args_len) == MAX_ARGS_LEN - args_len

\* What bpf_probe_read_user_str returns for a readable string of length n
\* and size limit size: the bytes written, the NUL included.
read_str_len(n, size) == IF n + 1 <= size THEN n + 1 ELSE size

\* One pass of the argument loop.  The argument pointer is null (or its read
\* failed, which leaves it null), or points to unreadable memory, or to a
\* string.
ExecveArg ==
    /\ thread.prog = "handle_execve" /\ thread.pc = "loop"
    /\ \/ /\ ~arg_loop_runs(thread.i)
          /\ thread' = [thread EXCEPT !.pc = "submit", !.steps = @ + 1]
       \/ /\ arg_loop_runs(thread.i)
          /\ thread' = [thread EXCEPT !.pc = "submit", !.broke = TRUE,
                                      !.steps = @ + 1]
       \/ /\ arg_loop_runs(thread.i)
          /\ thread.args_len >= MAX_ARGS_LEN - 1
          /\ thread' = [thread EXCEPT !.pc = "submit", !.steps = @ + 1]
       \/ /\ arg_loop_runs(thread.i)
          /\ thread.args_len < MAX_ARGS_LEN - 1
          /\ \E len \in {-EFAULT} \cup
                        {read_str_len(n, read_str_size(thread.args_len)) :
                            n \in StrLens} :
                thread' =
                   IF len <= 0
                   THEN [thread EXCEPT
                            !.w_start = thread.args_len,
                            !.w_limit = read_str_size(thread.args_len),
                            !.w_len = 0, !.pc = "submit", !.broke = TRUE,
                            !.steps = @ + 1]
                   ELSE [thread EXCEPT
                            !.w_start = thread.args_len,
                            !.w_limit = read_str_size(thread.args_len),
                            !.w_len = len, !.args_len = @ + len,
                            !.i = @ + 1, !.iters = @ + 1, !.steps = @ + 1]
    /\ StepsFrame

\* bpf_ringbuf_submit(e, 0); return 0
ExecveSubmit ==
    /\ thread.prog = "handle_execve" /\ thread.pc = "submit"
    /\ thread' = [thread EXCEPT !.submitted = @ + 1, !.rb = @ + 1,
                                !.pc = "return", !.steps = @ + 1]
    /\ StepsFrame

NextSteps ==
    \/ ConnectReadFamily
    \/ ConnectLoop4
    \/ ConnectLoop6
    \/ ConnectLookups
    \/ ExecveReserve
    \/ ExecveFill
    \/ ExecveArg
    \/ ExecveSubmit

SpecSteps == InitSteps /\ [][NextSteps]_vars

\* A handler that has been entered keeps running until it returns.
SpecStepsFair == SpecSteps /\ WF_vars(NextSteps)

\* The two identity functions on their own: each step applies one of them to
\* a pair of inputs and keeps the inputs and results in thread.
KeyStartTimes == {<<a, b, c, d>> : a \in {0}, b \in {0, 1}, c \in {0, 1}, d \in {0, 1}}

V4Bytes == {<<192, 168, 1, 1>>, <<192, 168, 1, 2>>, <<192, 168, 2, 1>>,
            <<255, 255, 255, 255>>, <<0, 0, 0, 0>>}
\* sin_port as the hook reads it: ports 443 and 80 in network byte order.
V4Ports == {47873, 20480}
V4Addrs == {[null |-> FALSE, family |-> AF_INET, port |-> p, bytes |-> b] :
               p \in V4Ports, b \in V4Bytes}
V4Lens == {8, 16}

InitPure ==
    /\ blocking_rules = EmptyMap
    /\ pid_blocking_map = EmptyMap
    /\ path_blocking_map = EmptyMap
    /\ network_blocking_map = EmptyMap
    /\ enforcement_map = EmptyMap
    /\ enforcement_events = [backlog |-> 0, events |-> <<>>]
    /\ clock = 0
    /\ calls = 0
    /\ ops = 0
    /\ attempts = <<>>
    /\ last = NoCall
    /\ thread = Idle

ApplyEntityKey ==
    /\ \E pid \in Pids, st1 \in KeyStartTimes, st2 \in KeyStartTimes :
          thread' = [pc |-> "generate_entity_key", pid |-> pid,
                     st1 |-> st1, st2 |-> st2,
                     k1 |-> generate_entity_key(pid, st1, U64Zero),
                     k2 |-> generate_entity_key(pid, st2, U64Zero)]
    /\ UNCHANGED <<blocking_rules, pid_blocking_map, path_blocking_map,
                   network_blocking_map, enforcement_map, enforcement_events,
                   clock, calls, ops, attempts, last>>

ApplyFingerprint ==
    /\ \E a \in V4Addrs, b \in V4Addrs, la \in V4Lens, lb \in V4Lens :
          thread' = [pc |-> "socket_fingerprint", a |-> a, b |-> b,
                     la |-> la, lb |-> lb,
                     ha |-> socket_fingerprint(a, la, FALSE).hash,
                     hb |-> socket_fingerprint(b, lb, FALSE).hash]
    /\ UNCHANGED <<blocking_rules, pid_blocking_map, path_blocking_map,
                   network_blocking_map, enforcement_map, enforcement_events,
                   clock, calls, ops, attempts, last>>

NextPure == ApplyEntityKey \/ ApplyFingerprint

SpecPure == InitPure /\ [][NextPure]_vars

\* Socket-connect on its own, in stores that hold rules for the process key
\* of pid 1 and for that key with the hash of SaV4 mixed in.
ConnectKey == generate_entity_key(1, <<0, 1, 0, 0>>, FpA)
ConnectHeads == {ProcKey, ConnectKey}
ConnectKeys == ConnectHeads \X StackTails
ConnectRule(key, action) ==
    [entity_key |-> key[1], action |-> action, ttl_ns |-> U64Zero,
     timestamp_ns |-> U64Zero, rule_id |-> U64Zero]
ConnectTables ==
    {EmptyMap}
    \cup {MapUpdate(EmptyMap, k, ConnectRule(k, a)) :
             k \in ConnectKeys, a \in {U64Of(ACTION_BLOCK), U64Of(ACTION_KILL)}}
    \cup {MapUpdate(MapUpdate(EmptyMap, <<ProcKey, t>>,
                              ConnectRule(<<ProcKey, t>>, a)),
                    <<ConnectKey, t>>, ConnectRule(<<ConnectKey, t>>, b)) :
             t \in StackTails,
             a \in {U64Of(ACTION_BLOCK), U64Of(ACTION_KILL)},
             b \in {U64Of(ACTION_BLOCK), U64Of(ACTION_KILL)}}

InitConnect ==
    /\ blocking_rules \in ConnectTables
    /\ pid_blocking_map = EmptyMap
    /\ path_blocking_map = EmptyMap
    /\ network_blocking_map = EmptyMap
    /\ enforcement_map = EmptyMap
    /\ enforcement_events = [backlog |-> 0, events |-> <<>>]
    /\ clock = 0
    /\ calls = 0
    /\ ops = 0
    /\ attempts = <<>>
    /\ last = NoCall
    /\ thread = Idle

NextConnect ==
    /\ calls < MaxCalls
    /\ \E pid \in Pids, st \in StartTimes, in \in SockInputs :
          \E fault \in ReadFaults(in[1], in[2]) :
             lsm_socket_connect(pid, st, in[1], in[2], fault)

SpecConnect == InitConnect /\ [][NextConnect]_vars

\* main.bpf.c: the four hooks of the collection program.  Each calls
\* check_enforcement(pid) and returns -EPERM when it yields 1.  The function
\* is taken load by load beside the userspace engine; thread.elem is what the
\* map element the lookup returned holds now and thread.where its standing,
\* as for check_blocking_rules above.  thread.stored collects the decisions
\* the map held for the pid while the hook ran, thread.absent records a moment
\* at which it held none.
DecisionHooks == {"lsm_bprm_check_security", "lsm_file_open",
                  "lsm_inode_permission", "lsm_socket_connect"}
DecisionActions == {0, 1, 2}
\* <<ttl_ns, timestamp_ns>> pairs.
DecisionTimes == {<<U64Zero, U64Of(2)>>, <<U64Of(1), U64Zero>>}
Decisions ==
    {[pid |-> pid, action |-> a, ttl_ns |-> t[1], timestamp_ns |-> t[2]] :
        pid \in FlaggedPids, a \in DecisionActions, t \in DecisionTimes}

NoDecision == [pid |-> 0, action |-> 0, ttl_ns |-> U64Zero,
               timestamp_ns |-> U64Zero]

\* decision->ttl_ns > 0 && (now - decision->timestamp_ns) > decision->ttl_ns
DecisionExpired(decision, now) ==
    /\ U64Gt(decision.ttl_ns, U64Zero)
    /\ U64Gt(U64Sub(now, decision.timestamp_ns), decision.ttl_ns)

EnforceEntry(hook, pid) ==
    [hook |-> hook, pid |-> pid, pc |-> "entry", now |-> 0,
     found |-> NoDecision, elem |-> NoDecision, where |-> "none",
     action |-> 0, ret |-> 0, deleted |-> NoDecision, raced |-> FALSE,
     stored |-> {}, absent |-> FALSE]

InitDecision ==
    /\ blocking_rules = EmptyMap
    /\ pid_blocking_map = EmptyMap
    /\ path_blocking_map = EmptyMap
    /\ network_blocking_map = EmptyMap
    /\ enforcement_map \in
          {EmptyMap} \cup {MapUpdate(EmptyMap, d.pid, d) : d \in Decisions}
    /\ enforcement_events = [backlog |-> 0, events |-> <<>>]
    /\ clock \in Clocks
    /\ calls = 0
    /\ ops = 0
    /\ attempts = <<>>
    /\ last = NoCall
    /\ \E hook \in DecisionHooks, pid \in Pids :
          thread = EnforceEntry(hook, pid)

DecisionFrame ==
    UNCHANGED <<blocking_rules, pid_blocking_map, path_blocking_map,
                network_blocking_map, enforcement_events, calls, attempts,
                last>>

\* u64 now = get_mono_time()
EnforceNow ==
    /\ thread.pc = "entry"
    /\ thread' = [thread EXCEPT !.now = clock, !.pc = "lookup"]
    /\ UNCHANGED <<enforcement_map, clock, ops>>
    /\ DecisionFrame

\* decision = bpf_map_lookup_elem(&enforcement_map, &pid); if (!decision) return 0
EnforceLookup ==
    /\ thread.pc = "lookup"
    /\ thread' = IF thread.pid \in DOMAIN enforcement_map
                  THEN [thread EXCEPT !.pc = "ttl",
                                      !.found = enforcement_map[thread.pid],
                                      !.elem = enforcement_map[thread.pid],
                                      !.where = "live",
                                      !.stored = {enforcement_map[thread.pid]}]
                  ELSE [thread EXCEPT !.pc = "return", !.action = 0,
                                      !.absent = TRUE]
    /\ UNCHANGED <<enforcement_map, clock, ops>>
    /\ DecisionFrame

\* decision->ttl_ns > 0 &&
EnforceReadTtl ==
    /\ thread.pc = "ttl"
    /\ thread' = [thread EXCEPT
                      !.pc = IF U64Gt(thread.elem.ttl_ns, U64Zero)
                             THEN "expiry" ELSE "action"]
    /\ UNCHANGED <<enforcement_map, clock, ops>>
    /\ DecisionFrame

\* (now - decision->timestamp_ns) > decision->ttl_ns
EnforceReadExpiry ==
    /\ thread.pc = "expiry"
    /\ thread' = [thread EXCEPT
                      !.pc = IF U64Gt(U64Sub(U64Of(thread.now),
                                             thread.elem.timestamp_ns),
                                      thread.elem.ttl_ns)
                             THEN "delete" ELSE "action"]
    /\ UNCHANGED <<enforcement_map, clock, ops>>
    /\ DecisionFrame

\* bpf_map_delete_elem(&enforcement_map, &pid); return 0
EnforceDelete ==
    /\ thread.pc = "delete"
    /\ enforcement_map' = MapDelete(enforcement_map, thread.pid)
    /\ thread' = [thread EXCEPT
                      !.pc = "return", !.action = 0,
                      !.deleted = IF thread.pid \in DOMAIN enforcement_map
                                  THEN enforcement_map[thread.pid]
                                  ELSE NoDecision,
                      !.where = IF thread.where = "live" THEN "free" ELSE @,
                      !.absent = TRUE]
    /\ UNCHANGED <<clock, ops>>
    /\ DecisionFrame

\* return decision->action
EnforceReadAction ==
    /\ thread.pc = "action"
    /\ thread' = [thread EXCEPT !.pc = "return", !.action = thread.elem.action]
    /\ UNCHANGED <<enforcement_map, clock, ops>>
    /\ DecisionFrame

\* if (action == 1) return -EPERM; return 0
decision_result(action) == IF action = 1 THEN -EPERM ELSE 0

EnforceReturn ==
    /\ thread.pc = "return"
    /\ thread' = [thread EXCEPT !.pc = "done",
                                !.ret = decision_result(thread.action)]
    /\ UNCHANGED <<enforcement_map, clock, ops>>
    /\ DecisionFrame

EnforceRunning == thread.pc \notin {"entry", "done"}

\* The engine's insert-or-replace while a hook is under way.
DecisionUpdate(d) ==
    LET replaces == d.pid \in DOMAIN enforcement_map
    IN  /\ EnforceRunning
        /\ ops < MaxRaceOps
        /\ ops' = ops + 1
        /\ enforcement_map' = MapUpdate(enforcement_map, d.pid, d)
        /\ \/ /\ thread.where = "live" /\ d.pid = thread.pid
              /\ thread' = [thread EXCEPT !.where = "spare", !.raced = TRUE,
                                          !.stored = @ \cup {d}]
           \/ /\ ~(thread.where = "live" /\ d.pid = thread.pid)
              /\ thread' = [thread EXCEPT !.raced = TRUE,
                               !.stored = IF d.pid = thread.pid
                                          THEN @ \cup {d} ELSE @]
           \/ /\ d.pid = thread.pid
              /\ \/ thread.where = "spare" /\ replaces
                 \/ thread.where = "free" /\ ~replaces
              /\ thread' = [thread EXCEPT !.elem = d, !.where = "live",
                                          !.raced = TRUE,
                                          !.stored = @ \cup {d}]
        /\ UNCHANGED clock
        /\ DecisionFrame

\* The engine's delete while a hook is under way.
DecisionRemove(pid) ==
    /\ EnforceRunning
    /\ ops < MaxRaceOps
    /\ pid \in DOMAIN enforcement_map
    /\ ops' = ops + 1
    /\ enforcement_map' = MapDelete(enforcement_map, pid)
    /\ thread' = IF thread.where = "live" /\ pid = thread.pid
                  THEN [thread EXCEPT !.where = "free", !.raced = TRUE,
                                      !.absent = TRUE]
                  ELSE [thread EXCEPT !.raced = TRUE,
                                      !.absent = (@ \/ pid = thread.pid)]
    /\ UNCHANGED clock
    /\ DecisionFrame

DecisionTick ==
    /\ EnforceRunning
    /\ clock < MaxClock
    /\ clock' = clock + 1
    /\ UNCHANGED <<enforcement_map, ops, thread>>
    /\ DecisionFrame

NextDecision ==
    \/ EnforceNow
    \/ EnforceLookup
    \/ EnforceReadTtl
    \/ EnforceReadExpiry
    \/ EnforceDelete
    \/ EnforceReadAction
    \/ EnforceReturn
    \/ \E d \in Decisions : DecisionUpdate(d)
    \/ \E pid \in FlaggedPids : DecisionRemove(pid)
    \/ DecisionTick

SpecDecision == InitDecision /\ [][NextDecision]_vars

\* ------------------------------------------------------------ properties
\* Vocabulary of the properties below; all of them look at the invocation
\* that has just returned (last) and the state it ran in (last.pre).
Called == last.hook # 0
Consulted == Called /\ last.consulted
PreNow == U64Of(last.pre.clock)

\* The entries of a rule table stored for entity key k.
RulesUnder(rules, k) == {key \in DOMAIN rules : key[1] = k}

\* A rule for entity key k that has not expired and carries action a.
LiveRule(rules, k, now, a) ==
    \E key \in RulesUnder(rules, k) :
        /\ ~RuleExpired(rules[key], now)
        /\ rules[key].action = U64Of(a)

\* No rule for k, or only expired ones.
NoLiveRule(rules, k, now) ==
    \A key \in RulesUnder(rules, k) : RuleExpired(rules[key], now)

PidFlagged(pids, pid) == pid \in DOMAIN pids /\ pids[pid] = U64Of(1)

\* The denial code the design gives each interception point.
DenyCode(hook) ==
    IF hook = HOOK_INODE_PERMISSION THEN EACCES
    ELSE IF hook = HOOK_SOCKET_CONNECT THEN ECONNREFUSED
    ELSE EPERM

\* C1: in every hook that consults the decision store, an unexpired ALLOW
\* rule stored for the invoking process's entity key together with a process
\* block for the same pid resolves to ALLOW, and the hook returns 0.
C1_EntityAllowWins ==
    (/\ Consulted
     /\ LiveRule(last.pre.rules, last.key, PreNow, ACTION_ALLOW)
     /\ PidFlagged(last.pre.pids, last.pid))
    => (last.action = ACTION_ALLOW /\ last.ret = 0)

\* C2 as stated: in every hook, a flagged pid without a live entity rule is
\* denied (whatever the path and network tables hold), and file-open by a
\* pid with no entry in any table returns 0.
C2_PidBlockAllHooks ==
    /\ (/\ Called
        /\ NoLiveRule(last.pre.rules, last.key, PreNow)
        /\ PidFlagged(last.pre.pids, last.pid))
       => last.ret < 0
    /\ (/\ Called
        /\ last.hook = HOOK_FILE_OPEN
        /\ RulesUnder(last.pre.rules, last.key) = {}
        /\ last.pid \notin DOMAIN last.pre.pids)
       => last.ret = 0

\* C2 (amended): in every hook invocation that consults the decision store
\* (memory-map only when the requested protection includes execute), a
\* flagged pid without a live entity rule resolves to BLOCK and is denied
\* with the hook's denial code, whatever the path and network tables hold;
\* file-open by a pid with no entry in any table returns 0.
C2_PidBlockDenies ==
    /\ (/\ Consulted
        /\ NoLiveRule(last.pre.rules, last.key, PreNow)
        /\ PidFlagged(last.pre.pids, last.pid))
       => (last.action = ACTION_BLOCK /\ last.ret = -DenyCode(last.hook))
    /\ (/\ Called
        /\ last.hook = HOOK_FILE_OPEN
        /\ RulesUnder(last.pre.rules, last.key) = {}
        /\ last.pid \notin DOMAIN last.pre.pids)
       => last.ret = 0

C2_Witness ==
    /\ Consulted
    /\ last.hook = HOOK_SOCKET_CONNECT
    /\ RulesUnder(last.pre.rules, last.key) # {}
    /\ NoLiveRule(last.pre.rules, last.key, PreNow)
    /\ PidFlagged(last.pre.pids, last.pid)
    /\ last.ret = -ECONNREFUSED

\* C3: for the rule stored for the looked-up entity key, with ttl T > 0 and
\* timestamp c, the lookup at clock now returns the rule's action and leaves
\* the rule stored when now - c <= T, and returns ALLOW and removes the rule
\* when now - c > T (64-bit unsigned arithmetic).
C3_TtlBoundary ==
    \A key \in BlockingKeys :
        (/\ Consulted
         /\ RulesUnder(last.pre.rules, last.key) = {key}
         /\ U64Gt(last.pre.rules[key].ttl_ns, U64Zero))
        => IF RuleExpired(last.pre.rules[key], PreNow)
           THEN /\ last.rule_action = ACTION_ALLOW
                /\ key \notin DOMAIN blocking_rules
           ELSE /\ last.rule_action = IntOfU64(last.pre.rules[key].action)
                /\ key \in DOMAIN blocking_rules

\* C4: a rule with ttl = 0 is never removed by a hook, whatever the clock
\* (also below the rule's timestamp), and every lookup of its entity key
\* returns its action.
C4_ZeroTtlNeverExpires ==
    \A key \in BlockingKeys :
        (/\ Called
         /\ key \in DOMAIN last.pre.rules
         /\ last.pre.rules[key].ttl_ns = U64Zero)
        => /\ key \in DOMAIN blocking_rules
           /\ blocking_rules[key] = last.pre.rules[key]
           /\ (last.consulted /\ last.key = key[1])
              => last.rule_action = IntOfU64(last.pre.rules[key].action)

\* C5: process-exec for a process whose entity key has an unexpired BLOCK or
\* KILL rule returns -EPERM and, when the ring has a free slot, appends
\* exactly one record with the rule's action, that key and the invoking pid.
C5_ExecEndToEnd ==
    \A key \in BlockingKeys :
        (/\ Called
         /\ last.hook = HOOK_BPRM_CHECK_SECURITY
         /\ RulesUnder(last.pre.rules, last.key) = {key}
         /\ ~RuleExpired(last.pre.rules[key], PreNow)
         /\ last.pre.rules[key].action \in {U64Of(ACTION_BLOCK), U64Of(ACTION_KILL)})
        => /\ last.ret = -EPERM
           /\ last.pre.ringlen < RingSlots
              => /\ RingLen(enforcement_events) = last.pre.ringlen + 1
                 /\ LET e == enforcement_events.events[Len(enforcement_events.events)]
                    IN  /\ e.action = IntOfU64(last.pre.rules[key].action)
                        /\ e.entity_key = last.key
                        /\ e.pid = last.pid

C6_Witness ==
    /\ Consulted
    /\ last.hook = HOOK_INODE_PERMISSION
    /\ last.action = ACTION_BLOCK
    /\ last.ret = -EACCES

\* C6: a resolved BLOCK is answered with the hook's own denial code
\* (-EACCES for inode-permission, -ECONNREFUSED for socket-connect, -EPERM
\* for the others), and no hook returns any other non-zero value.
C6_DenialCodes ==
    Called =>
        /\ last.ret \in {0, -DenyCode(last.hook)}
        /\ (last.consulted /\ last.action = ACTION_BLOCK)
           => last.ret = -DenyCode(last.hook)

\* C7: when socket-connect computes a zero fingerprint, the network-block
\* table plays no part: a denial then comes from the rule lookup or from the
\* process block, never from network_blocking_map[0].
C7_ZeroFingerprintSkipsNet ==
    (/\ Called
     /\ last.hook = HOOK_SOCKET_CONNECT
     /\ last.sock.hash = U64Zero
     /\ last.ret # 0)
    => \/ last.rule_action # ACTION_ALLOW
       \/ PidFlagged(last.pre.pids, last.pid)

\* C8: socket-connect reads no more than addr_len bytes of the caller's
\* address buffer, and the hash consumes only bytes inside them.
C8_NoReadPastLength ==
    (Called /\ last.hook = HOOK_SOCKET_CONNECT)
    => /\ last.sock.nread <= last.sock.addr_len
       /\ last.sock.used_end <= last.sock.addr_len

\* The action a hook's lookups resolve, given what the rule lookup returned.
Resolve(rule_action, pids, nets, hook, pid, hash) ==
    IF rule_action # ACTION_ALLOW THEN rule_action
    ELSE IF PidFlagged(pids, pid) THEN ACTION_BLOCK
    ELSE IF hook = HOOK_SOCKET_CONNECT /\ hash \in DOMAIN nets
            /\ nets[hash] = U64Of(1) THEN ACTION_BLOCK
    ELSE ACTION_ALLOW

\* The value a hook returns for a resolved action.
ResultOf(hook, action) ==
    IF action = ACTION_BLOCK THEN -DenyCode(hook)
    ELSE IF action = ACTION_KILL /\ hook = HOOK_BPRM_CHECK_SECURITY THEN -EPERM
    ELSE 0

C9_Witness ==
    /\ Consulted
    /\ last.tried # NoEvent
    /\ last.pre.ringlen = RingSlots
    /\ last.ret = -EPERM
    /\ blocking_rules # last.pre.rules

\* C9: a hook's return value and its effect on the decision store follow
\* from the store and the clock alone, with the ring full or not; a failed
\* reservation writes nothing, a successful one appends exactly the record,
\* and the value returned is the decision's result, never an error of the
\* emission.
C9_AuditNeverChangesEnforcement ==
    Consulted =>
        /\ \E r \in check_blocking_rules(last.pre.rules, last.key, PreNow) :
              /\ blocking_rules = r.rules
              /\ last.ret = ResultOf(last.hook,
                                Resolve(r.action, last.pre.pids, last.pre.nets,
                                        last.hook, last.pid, last.sock.hash))
        /\ pid_blocking_map = last.pre.pids
        /\ path_blocking_map = last.pre.paths
        /\ network_blocking_map = last.pre.nets
        /\ last.tried = NoEvent => enforcement_events = last.pre.ring
        /\ (last.tried # NoEvent /\ last.pre.ringlen >= RingSlots)
           => enforcement_events = last.pre.ring
        /\ (last.tried # NoEvent /\ last.pre.ringlen < RingSlots)
           => /\ enforcement_events =
                    [last.pre.ring EXCEPT !.events = Append(@, last.tried)]
              /\ last.tried.result = last.ret

C10_Witness ==
    /\ enforcement_events.backlog = RingSlots - 2
    /\ Len(attempts) = 3
    /\ Len(enforcement_events.events) = 2
    /\ calls = 3

\* C10: with nothing drained, the ring keeps the first records emitted, in
\* emission order, up to the room it had; what is emitted beyond that is
\* dropped (exactly one of N+1 emissions into room for N), and every
\* emitting invocation has returned.
C10_SaturationDropsOverflow ==
    LET room == RingSlots - enforcement_events.backlog
        n == Len(attempts)
        kept == IF n < room THEN n ELSE room
    IN  /\ enforcement_events.events = SubSeq(attempts, 1, kept)
        /\ n = room + 1 => Len(enforcement_events.events) = n - 1
        /\ n <= calls
        /\ (Called /\ last.tried # NoEvent) => last.ret = last.tried.result

\* C11: every invocation that consults the decision store while the ring has
\* a free slot appends exactly one record, also when it resolves ALLOW;
\* inode-permission appends one only when it denies.
C11_EveryResolutionAudited ==
    (Consulted /\ last.pre.ringlen < RingSlots)
    => RingLen(enforcement_events) - last.pre.ringlen =
          (IF last.hook = HOOK_INODE_PERMISSION /\ last.ret = 0 THEN 0 ELSE 1)

\* C12: a hook returns non-zero only if, in the state it ran in, an unexpired
\* BLOCK or KILL rule was stored for the key it looked up, or the pid was
\* flagged, or (socket-connect) the network table flagged the fingerprint of
\* the destination it was given; a failed read never produces a denial.
C12_DenialOnlyOnResolution ==
    (Called /\ last.ret # 0)
    => \/ LiveRule(last.pre.rules, last.key, PreNow, ACTION_BLOCK)
       \/ LiveRule(last.pre.rules, last.key, PreNow, ACTION_KILL)
       \/ PidFlagged(last.pre.pids, last.pid)
       \/ /\ last.hook = HOOK_SOCKET_CONNECT
          /\ last.sock.dest \in DOMAIN last.pre.nets
          /\ last.pre.nets[last.sock.dest] = U64Of(1)

C15_Witness ==
    /\ Called
    /\ last.hook = HOOK_MMAP_FILE
    /\ (last.sock.reqprot \div PROT_EXEC) % 2 = 0
    /\ PidFlagged(last.pre.pids, last.pid)
    /\ \E key \in RulesUnder(last.pre.rules, last.key) :
          RuleExpired(last.pre.rules[key], PreNow)

\* C15: memory-map with a requested protection that lacks execute returns 0
\* without consulting the store: no table changes (no expired rule is
\* deleted) and no record is emitted, whatever the store holds.
C15_MmapShortCircuit ==
    (/\ Called
     /\ last.hook = HOOK_MMAP_FILE
     /\ (last.sock.reqprot \div PROT_EXEC) % 2 = 0)
    => /\ last.ret = 0
       /\ ~last.consulted
       /\ last.tried = NoEvent
       /\ blocking_rules = last.pre.rules
       /\ pid_blocking_map = last.pre.pids
       /\ path_blocking_map = last.pre.paths
       /\ network_blocking_map = last.pre.nets
       /\ enforcement_events = last.pre.ring

C13_KeySeparatesStartTimes ==
    (thread.pc = "generate_entity_key" /\ thread.st1 # thread.st2)
    => thread.k1 # thread.k2

C13_Witness ==
    /\ thread.pc = "generate_entity_key"
    /\ thread.st1 # thread.st2
    /\ U64High32(thread.st1) # U64High32(thread.st2)
    /\ thread.k1 # thread.k2

\* C13 (amended): for one pid, two start times give different entity keys
\* exactly when their upper 32 bits differ; start times that differ only in
\* the lower 32 bits give the same key.
C13_KeySeparatesHighBits ==
    thread.pc = "generate_entity_key"
    => (thread.k1 # thread.k2
        <=> U64High32(thread.st1) # U64High32(thread.st2))

\* ((((b0*31 + b1)*31 + b2)*31 + b3) << 16) XOR port, for address bytes
\* b0..b3 and a 16-bit port.
Ipv4Formula(sa) ==
    LET h == ((sa.bytes[1] * 31 + sa.bytes[2]) * 31 + sa.bytes[3]) * 31
             + sa.bytes[4]
    IN  <<0, h \div Limb, h % Limb, sa.port>>

C14_Witness ==
    /\ thread.pc = "socket_fingerprint"
    /\ thread.a.bytes = <<192, 168, 1, 1>>
    /\ thread.b.bytes = <<192, 168, 1, 2>>
    /\ thread.a.port = 47873
    /\ thread.b.port = 47873
    /\ thread.ha # thread.hb

\* C14: for IPv4 and addr_len >= 8 the fingerprint is the formula above of
\* the address bytes and the port and of nothing else (the same for every
\* addr_len >= 8), and two destinations with one port whose addresses differ
\* only in the last byte get different fingerprints.
C14_Ipv4Fingerprint ==
    thread.pc = "socket_fingerprint"
    => /\ thread.ha = Ipv4Formula(thread.a)
       /\ thread.hb = Ipv4Formula(thread.b)
       /\ (/\ thread.a.port = thread.b.port
           /\ SubSeq(thread.a.bytes, 1, 3) = SubSeq(thread.b.bytes, 1, 3)
           /\ thread.a.bytes[4] # thread.b.bytes[4])
          => thread.ha # thread.hb

\* C16: whatever the engine does between a hook's lookup and its delete, the
\* entry the hook's expiry deletion removes is the rule it found expired,
\* and that entry is expired at the moment it is removed.
C16_LazyExpirySafe ==
    (thread.pc = "done" /\ thread.deleted # NoRule)
    => /\ thread.deleted.ttl_ns = thread.ttl
       /\ thread.deleted.timestamp_ns = thread.ts
       /\ RuleExpired(thread.deleted, U64Of(thread.del_now))

\* C17: the ttl, the timestamp and the action one lookup uses are those of
\* one rule the engine stored, so the action returned belongs to a rule
\* whose own ttl and timestamp passed the expiry test.
C17_NoTornRuleReads ==
    (thread.pc = "done" /\ thread.used # NoRule)
    => \E v \in thread.written :
          /\ v.action = thread.used.action
          /\ v.ttl_ns = thread.ttl
          /\ thread.checked => /\ v.timestamp_ns = thread.ts
                               /\ ~RuleExpired(v, U64Of(thread.now))

\* The loops taken step by step compute the hash socket_fingerprint gives.
StepsAgree ==
    (thread.prog = "lsm_socket_connect" /\ thread.pc \in {"lookups", "return"})
    => /\ thread.hash = socket_fingerprint(thread.sa, thread.addr_len, FALSE).hash
       /\ thread.iters <= 16

C18_Witness ==
    /\ thread.prog = "handle_execve"
    /\ thread.pc = "return"
    /\ thread.iters = MAX_ARGS
    /\ thread.submitted = 1

\* C18: every handler invocation reaches its return, after a bounded number
\* of steps; the IPv4 address loop runs at most 4 times, the IPv6 one at
\* most 16 times and the argument loop of handle_execve at most 32 times,
\* whatever addr_len and whatever the argument vector.
C18_HandlersTerminate ==
    /\ [](/\ thread.steps <= MAX_ARGS + 4
          /\ thread.prog = "handle_execve" => thread.iters <= 32
          /\ (thread.prog = "lsm_socket_connect" /\ thread.family = AF_INET)
             => thread.iters <= 4
          /\ thread.prog = "lsm_socket_connect" => thread.iters <= 16)
    /\ <>(thread.pc = "return")

C19_Witness ==
    /\ thread.prog = "handle_execve"
    /\ thread.pc = "return"
    /\ thread.args_len = MAX_ARGS_LEN
    /\ thread.i >= 2
    /\ thread.submitted = 1

\* C19: in handle_execve at most 32 arguments are captured, capture stops at
\* the first null or unreadable argument, 0 <= args_len <= 512 throughout,
\* every string write starts at args_len with size limit 512 - args_len and
\* ends inside the 512-byte buffer, and a reserved record is submitted
\* exactly once (none when the reservation failed).
C19_ArgCaptureInBounds ==
    thread.prog = "handle_execve"
    => /\ thread.i <= 32
       /\ thread.args_len >= 0
       /\ thread.args_len <= 512
       /\ thread.w_start >= 0
       /\ thread.w_limit \in {0, 512 - thread.w_start}
       /\ thread.w_len <= thread.w_limit
       /\ thread.w_start + thread.w_len <= 512
       /\ thread.w_len > 0 => thread.args_len = thread.w_start + thread.w_len
       /\ thread.broke => thread.pc \in {"submit", "return"}
       /\ thread.submitted <= 1
       /\ thread.pc = "return"
          => thread.submitted = (IF thread.reserved THEN 1 ELSE 0)

\* C22: every record a hook hands to the ring carries the invoking pid, the
\* hook's own identifier, the key of that invocation's rule lookup, the
\* action its lookups resolved and the value the hook returned: 0 for ALLOW,
\* the hook's denial code for BLOCK and KILL; a record that reaches the ring
\* is that record.
C22_AuditRecordsFaithful ==
    (Called /\ last.tried # NoEvent)
    => /\ last.tried.pid = last.pid
       /\ last.tried.hook_type = last.hook
       /\ last.tried.entity_key = last.key
       /\ last.tried.action = last.action
       /\ last.tried.result = last.ret
       /\ last.tried.result = (IF last.action = ACTION_ALLOW THEN 0
                               ELSE -DenyCode(last.hook))
       /\ last.pre.ringlen < RingSlots
          => enforcement_events.events[Len(enforcement_events.events)] = last.tried

\* C24: in every hook that consults the store, a flagged pid is denied unless
\* an unexpired ALLOW rule is stored for the looked-up key; an unexpired KILL
\* rule (or one with any other action than ALLOW) beside a process block
\* never lets the operation through.
C24_RuleNeverWeakensPidBlock ==
    (/\ Consulted
     /\ PidFlagged(last.pre.pids, last.pid)
     /\ ~LiveRule(last.pre.rules, last.key, PreNow, ACTION_ALLOW))
    => last.ret < 0

\* C26: whatever the discriminant (network fingerprint, command number,
\* target pid), the upper 32 bits of the key a hook looks up are the
\* invoking pid.
C26_KeyHighBitsArePid ==
    Consulted
    => U64High32(last.key) = <<last.pid \div Limb, last.pid % Limb>>

\* The action a hook writes into its audit record for a resolved action, or
\* -1 where the hook returns without a record.
AuditFor(hook, action) ==
    IF action = ACTION_BLOCK THEN ACTION_BLOCK
    ELSE IF action = ACTION_KILL /\ hook = HOOK_BPRM_CHECK_SECURITY
    THEN ACTION_KILL
    ELSE IF hook \in {HOOK_BPRM_CHECK_SECURITY, HOOK_FILE_OPEN,
                      HOOK_SOCKET_CONNECT, HOOK_MMAP_FILE}
    THEN ACTION_ALLOW
    ELSE -1

C25_Witness ==
    /\ Consulted
    /\ last.hook = HOOK_FILE_OPEN
    /\ U64Of(7) \in DOMAIN last.pre.paths
    /\ last.pre.paths[U64Of(7)] = U64Of(1)
    /\ last.ret = 0
    /\ last.tried # NoEvent
    /\ last.tried.action = ACTION_ALLOW

\* C25: what a hook returns, the record it emits and the change it makes to
\* the store are fixed by the rule, process and network tables, the ring, the
\* clock and the hook's inputs; the content of path_blocking_map plays no
\* part in any of them, and no hook changes it.
C25_PathTableInert ==
    Called =>
        /\ path_blocking_map = last.pre.paths
        /\ pid_blocking_map = last.pre.pids
        /\ network_blocking_map = last.pre.nets
        /\ ~last.consulted
           => /\ last.ret = 0
              /\ last.tried = NoEvent
              /\ blocking_rules = last.pre.rules
              /\ enforcement_events = last.pre.ring
        /\ last.consulted
           => \E r \in check_blocking_rules(last.pre.rules, last.key, PreNow) :
                 LET a == Resolve(r.action, last.pre.pids, last.pre.nets,
                                  last.hook, last.pid, last.sock.hash)
                     sent == AuditFor(last.hook, a)
                 IN  /\ blocking_rules = r.rules
                     /\ last.ret = ResultOf(last.hook, a)
                     /\ sent = -1 => /\ last.tried = NoEvent
                                     /\ enforcement_events = last.pre.ring
                     /\ sent # -1
                        => /\ last.tried # NoEvent
                           /\ last.tried.action = sent
                           /\ last.tried.result = last.ret
                           /\ last.tried.pid = last.pid
                           /\ last.tried.entity_key = last.key
                           /\ last.tried.hook_type = last.hook
                           /\ last.tried.ts_mono_ns = PreNow
                           /\ enforcement_events =
                                 IF last.pre.ringlen < RingSlots
                                 THEN [last.pre.ring EXCEPT
                                          !.events = Append(@, last.tried)]
                                 ELSE last.pre.ring

C21_Witness ==
    /\ Called
    /\ last.hook = HOOK_SOCKET_CONNECT
    /\ last.sock.hash = FpA
    /\ last.key = ConnectKey
    /\ LiveRule(last.pre.rules, ProcKey, PreNow, ACTION_KILL)
    /\ LiveRule(last.pre.rules, ConnectKey, PreNow, ACTION_BLOCK)
    /\ last.rule_action = ACTION_BLOCK
    /\ last.ret = -ECONNREFUSED

\* C21: socket-connect looks the rule up, and writes its audit record, under
\* the key derived from pid, start time and the address hash it has computed;
\* a rule stored under the key without the hash is consulted (returned or
\* removed) only when the hash is zero.
C21_ConnectUsesDiscriminatedKey ==
    (Called /\ last.hook = HOOK_SOCKET_CONNECT)
    => \E st \in StartTimes :
          LET plain == generate_entity_key(last.pid, st, U64Zero)
          IN  /\ last.consulted
              /\ last.key = generate_entity_key(last.pid, st, last.sock.hash)
              /\ last.tried # NoEvent
              /\ last.tried.entity_key = last.key
              /\ last.key = plain <=> last.sock.hash = U64Zero
              /\ last.rule_action # ACTION_ALLOW
                 => \E key \in RulesUnder(last.pre.rules, last.key) :
                       IntOfU64(last.pre.rules[key].action) = last.rule_action
              /\ last.sock.hash # U64Zero
                 => \A key \in RulesUnder(last.pre.rules, plain) :
                       /\ key \in DOMAIN blocking_rules
                       /\ blocking_rules[key] = last.pre.rules[key]

\* What the hooks of main.bpf.c do when nothing else touches the map while
\* they run: the decision found decides.
DecisionSequential ==
    (thread.pc = "done" /\ thread.hook \in DecisionHooks /\ ~thread.raced)
    => IF thread.found = NoDecision
       THEN thread.ret = 0 /\ thread.deleted = NoDecision
       ELSE IF DecisionExpired(thread.found, U64Of(thread.now))
       THEN /\ thread.ret = 0
            /\ thread.deleted = thread.found
            /\ thread.pid \notin DOMAIN enforcement_map
       ELSE /\ thread.ret = (IF thread.found.action = 1 THEN -EPERM ELSE 0)
            /\ thread.deleted = NoDecision
            /\ enforcement_map[thread.pid] = thread.found

\* C23: each of the four hooks of main.bpf.c returns -EPERM only for a
\* decision stored for the invoking pid with action 1 that is not expired,
\* and 0 only when none is stored or the stored one is expired or does not
\* block; the decision a hook removes is expired, so one with ttl = 0 is
\* never removed by a hook.
C23_PidDecisions ==
    (thread.pc = "done" /\ thread.hook \in DecisionHooks)
    => /\ thread.ret \in {0, -EPERM}
       /\ thread.deleted # NoDecision
          => /\ U64Gt(thread.deleted.ttl_ns, U64Zero)
             /\ DecisionExpired(thread.deleted, U64Of(thread.now))
       /\ thread.ret = -EPERM
          => \E d \in thread.stored :
                d.action = 1 /\ ~DecisionExpired(d, U64Of(thread.now))
       /\ thread.ret = 0
          => \/ thread.absent
             \/ \E d \in thread.stored :
                   d.action # 1 \/ DecisionExpired(d, U64Of(thread.now))

====
